---- MODULE Spec2Model ----
(***************************************************************************)
(* Model of np.lib.network.modKruskal: candidate generation, the sorted    *)
(* merge loop of the modified Kruskal algorithm, and the final pruning.    *)
(* Weights, costs and coordinates are integers; demand nodes lie on the    *)
(* line y = 0 and an existing network, when loaded, is a line parallel to  *)
(* it, so that every demand node has its own projection point.             *)
(***************************************************************************)
EXTENDS Integers, Sequences, FiniteSets, TLC

\* ------------------------------------------------------------- bounds
MaxCoord == 3
MaxWeight == 2
MaxProjCost == 2
MaxK == 3
MaxMin == 2

\* ids of the demand nodes of the bounded inputs
NodeIDs == {1, 2, 3}
None == {}

\* bounds of the variable store: overriding acts (values passed to a
\* constructor, calls of set), aggregate and summary classes
MaxExplicit == 1
MaxClasses == 1

\* bound of gatherVariables: classes waiting to be visited
MaxPending == 6

\* the stores of the chain, and the value None of a variable
Stores == {1, 2, 3}
NoValue == 0

VARIABLES
    pc,         \* position in buildNetworkFromNodes
    coord,      \* node id -> coordinates (demand nodes)
    weight,     \* node id -> weight, over the nodes that exist
    subnets,    \* net.subnets: a set of node sets
    segments,   \* candidate list in generation order
    order,      \* sorted(segments, key=weight) as indices into segments
    idx,        \* position of the merge loop in order
    accepted,   \* segments added to the net during the build, in order
    last,       \* locals of the last iteration of the merge loop
    net0,       \* the subnets at the end of the merge loop
    minCount,   \* the value read for MinimumNodeCountPerSubnetwork
    variableByClass, \* store -> its cache: class -> variable
    declared,   \* the aggregate and summary classes of the model class
    explicit,   \* values passed to constructors and calls of set, so far
    op,         \* the last call on a store: arguments, outcome, caches before
    gather      \* gatherVariables: its argument, its position and its locals

buildvars == <<pc, coord, weight, subnets, segments, order, idx, accepted, last, net0, minCount>>
storevars == <<variableByClass, declared, explicit, op, gather>>
vars == <<buildvars, storevars>>

\* ids of the demand nodes (positive) and of the projection points on the
\* existing network (negative: fixed nodes)
RealNodes == DOMAIN coord
FixedNodes == {0 - r : r \in RealNodes}

\* ------------------------------------------------------------- geometry
ISqrt(n) == CHOOSE r \in 0..n : r * r <= n /\ n < (r + 1) * (r + 1)

computeEuclideanDistance(p, q) ==
    ISqrt((p[1] - q[1]) * (p[1] - q[1]) + (p[2] - q[2]) * (p[2] - q[2]))

Coordinates == {<<x, 0>> : x \in 0..MaxCoord}

\* ------------------------------------------------------------- nodes
isFake(id) == id < 0

cycleNodes(subnet) == {n \in subnet : ~isFake(n)}

countNodes(subnet) == Cardinality({n \in subnet : ~isFake(n)})

SubnetOf(subs, n) == CHOOSE S \in subs : n \in S

\* ------------------------------------------------------------- segments
Segment(a, b, w, by) == [n1 |-> a, n2 |-> b, w |-> w, by |-> by]

SameSegment(s, t) == {s.n1, s.n2} = {t.n1, t.n2}

\* SegmentFactory.getSegment: one Segment per unordered pair, the one made
\* by the first request
RECURSIVE getSegments(_, _)
getSegments(made, reqs) ==
    IF reqs = <<>> THEN made
    ELSE LET r == Head(reqs)
             old == {i \in 1..Len(made) : SameSegment(made[i], r)}
             s == IF old = {} THEN r
                  ELSE LET f == made[CHOOSE i \in old : \A j \in old : i <= j]
                       IN  Segment(f.n1, f.n2, f.w, r.by)
         IN  getSegments(Append(made, s), Tail(reqs))

\* Network.project: one candidate per demand node, to its projection point
RECURSIVE project(_, _)
project(n, d) ==
    IF n = 0 THEN <<>>
    ELSE Append(project(n - 1, d), Segment(n, 0 - n, d, n))

\* kdTree.query(point, k): the answers the index may give, nearest first
NearestNeighbors(c, r, k) ==
    LET n == IF k < Cardinality(RealNodes) THEN k ELSE Cardinality(RealNodes)
        d(m) == computeEuclideanDistance(c[r], c[m])
    IN  {q \in [1..n -> RealNodes] :
            /\ \A i, j \in 1..n : i < j => q[i] # q[j] /\ d(q[i]) <= d(q[j])
            /\ \A m \in RealNodes : (\A i \in 1..n : q[i] # m) => d(m) >= d(q[n])}

\* line 105: one answer of the index for each of the nodes 1..n
RECURSIVE NeighborAnswers(_, _, _)
NeighborAnswers(c, k, n) ==
    IF n = 0 THEN {<<>>}
    ELSE {Append(f, q) : f \in NeighborAnswers(c, k, n - 1),
                         q \in NearestNeighbors(c, n, k)}

\* lines 103-109: the requests of the neighbour loop, in node order
RECURSIVE NeighborRequestsOthers(_, _, _)
\* the queries leave out the node's own position
NeighborRequestsOthers(c, nbrs, n) ==
    IF n = 0 THEN <<>>
    ELSE NeighborRequestsOthers(c, nbrs, n - 1) \o
         [i \in 1..(Len(nbrs[n]) - 1) |->
            Segment(n, nbrs[n][i + 1],
                    computeEuclideanDistance(c[n], c[nbrs[n][i + 1]]), n)]

RECURSIVE NeighborRequests(_, _, _)
NeighborRequests(c, nbrs, n) ==
    IF n = 0 THEN <<>>
    ELSE NeighborRequests(c, nbrs, n - 1) \o
         [i \in 1..Len(nbrs[n]) |->
            Segment(n, nbrs[n][i], computeEuclideanDistance(c[n], c[nbrs[n][i]]), n)]

\* ------------------------------------------------------------- sorting
InsertUnstable(s, j, segs) ==
    LET p == Cardinality({i \in 1..Len(s) : segs[s[i]].w < segs[j].w})
    IN  SubSeq(s, 1, p) \o <<j>> \o SubSeq(s, p + 1, Len(s))

Insert(s, j, segs) ==
    LET p == Cardinality({i \in 1..Len(s) : segs[s[i]].w <= segs[j].w})
    IN  SubSeq(s, 1, p) \o <<j>> \o SubSeq(s, p + 1, Len(s))

RECURSIVE SortPrefix(_, _)
SortPrefix(segs, n) ==
    IF n = 0 THEN <<>> ELSE Insert(SortPrefix(segs, n - 1), n, segs)

\* the candidates taken in the order of their generation
unsorted(segs) == [i \in 1..Len(segs) |-> i]

sorted(segs) == SortPrefix(segs, Len(segs))

\* ------------------------------------------------------------- merge loop
NodeQualifies(nWeight, sWeight, id) == nWeight >= sWeight \/ isFake(id)

SegmentQualifiesEither(q1, q2) == q1 \/ q2

SegmentQualifies(q1, q2) == q1 /\ q2

MergedWeightTwice(n1Weight, n2Weight, sWeight) == n1Weight + n2Weight - 2 * sWeight

MergedWeight(n1Weight, n2Weight, sWeight) == n1Weight + n2Weight - sWeight

\* Network.addSegment: the merged subnet (or None) and the new subnets
addSegmentNoCheck(subs, s) ==
    LET A == SubnetOf(subs, s.n1)
        B == SubnetOf(subs, s.n2)
    IN  [subnet |-> A \cup B, subnets |-> (subs \ {A, B}) \cup {A \cup B}]

addSegment(subs, s) ==
    LET A == SubnetOf(subs, s.n1)
        B == SubnetOf(subs, s.n2)
    IN  IF A = B THEN [subnet |-> None, subnets |-> subs]
        ELSE [subnet |-> A \cup B, subnets |-> (subs \ {A, B}) \cup {A \cup B}]

\* lines 133-136
setWeightsAlways(w, subs, s, subnet, value) ==
    LET target == IF subnet = None THEN SubnetOf(subs, s.n1) ELSE subnet
    IN  [n \in DOMAIN w |-> IF n \in cycleNodes(target) THEN value ELSE w[n]]

setWeights(w, subs, s, subnet, value) ==
    IF subnet = None THEN w
    ELSE [n \in DOMAIN w |-> IF n \in cycleNodes(subnet) THEN value ELSE w[n]]

\* ------------------------------------------------------------- pruning
survivingAbove(subs, m) == {S \in subs : countNodes(S) > m}

survivingBelow(subs, m) == {S \in subs : countNodes(S) <= m}

surviving(subs, m) == {S \in subs : countNodes(S) >= m}

\* ------------------------------------------------------------- behaviour
NoLast == [outcome |-> "none"]
NoOp == [kind |-> "none"]
NoGather == [pc |-> "idle"]

\* three nodes on a line, the leftmost at the origin
LineInputs ==
    /\ coord \in {c \in [NodeIDs -> Coordinates] :
                    /\ \A a, b \in NodeIDs : a # b => c[a] # c[b]
                    /\ \E a \in NodeIDs : c[a] = <<0, 0>>}
    /\ weight \in [NodeIDs -> 0..MaxWeight]

\* the four nodes of the reference scenario
ReferenceCoordinates == <<(<<0, 0>>), (<<1, 0>>), (<<2, 0>>), (<<10, 10>>)>>

ReferenceInputs ==
    /\ coord = ReferenceCoordinates
    /\ weight = <<10, 10, 10, 1>>

Init ==
    /\ pc = "start"
    /\ LineInputs \/ ReferenceInputs
    /\ subnets = {}
    /\ segments = <<>>
    /\ order = <<>>
    /\ idx = 0
    /\ accepted = <<>>
    /\ last = NoLast
    /\ net0 = {}
    /\ minCount = 0
    /\ variableByClass = <<>>
    /\ declared = <<>>
    /\ explicit = 0
    /\ op = NoOp
    /\ gather = NoGather

\* generateSegments, lines 70-74
Prepare ==
    /\ pc = "start"
    /\ subnets' = {{r} : r \in RealNodes}
    /\ segments' = <<>>
    /\ pc' = "existing"
    /\ UNCHANGED <<coord, weight, order, idx, accepted, last, net0, minCount>>
    /\ UNCHANGED storevars

\* line 76: no existing network is configured
NoExistingNetwork ==
    /\ pc = "existing"
    /\ pc' = "neighbors"
    /\ UNCHANGED <<coord, weight, subnets, segments, order, idx, accepted, last, net0, minCount>>
    /\ UNCHANGED storevars

\* line 90: net.subnets.append(network.Subnet([...]))
replaceWithSubnet(subs, subnet) == {subnet}

appendSubnet(subs, subnet) == subs \cup {subnet}

\* the archive is found invalid only after the network was loaded
ArchiveErrorAfterLoad ==
    /\ pc = "existing"
    /\ \E d \in 1..MaxProjCost :
         segments' = segments \o project(Cardinality(RealNodes), d)
    /\ subnets' = appendSubnet(subnets, FixedNodes)
    /\ pc' = "error"
    /\ UNCHANGED <<coord, weight, order, idx, accepted, last, net0, minCount>>
    /\ UNCHANGED storevars

\* lines 79-83: the archive is missing or holds no shapefile
ArchiveError ==
    /\ pc = "existing"
    /\ pc' = "error"
    /\ UNCHANGED <<coord, weight, subnets, segments, order, idx, accepted, last, net0, minCount>>
    /\ UNCHANGED storevars

\* lines 84-92
LoadExistingNetwork ==
    /\ pc = "existing"
    /\ \E d \in 1..MaxProjCost :
         segments' = segments \o project(Cardinality(RealNodes), d)
    /\ subnets' = appendSubnet(subnets, FixedNodes)
    /\ weight' = weight @@ [f \in FixedNodes |-> 0]
    /\ pc' = "neighbors"
    /\ UNCHANGED <<coord, order, idx, accepted, last, net0, minCount>>
    /\ UNCHANGED storevars

\* lines 93-111
GenerateNeighbors ==
    /\ pc = "neighbors"
    /\ \E k \in 1..MaxK :
       \E nbrs \in NeighborAnswers(coord, k, Cardinality(RealNodes)) :
         segments' = getSegments(segments,
                        NeighborRequests(coord, nbrs, Cardinality(RealNodes)))
    /\ pc' = "sort"
    /\ UNCHANGED <<coord, weight, subnets, order, idx, accepted, last, net0, minCount>>
    /\ UNCHANGED storevars

\* line 121
Sort ==
    /\ pc = "sort"
    /\ order' = sorted(segments)
    /\ idx' = 1
    /\ pc' = "merge"
    /\ UNCHANGED <<coord, weight, subnets, segments, accepted, last, net0, minCount>>
    /\ UNCHANGED storevars

\* lines 121-136: one iteration of the merge loop
ProcessSegment ==
    /\ pc = "merge"
    /\ idx <= Len(order)
    /\ LET segment == segments[order[idx]]
           n1Weight == weight[segment.n1]
           n2Weight == weight[segment.n2]
           sWeight == segment.w
           node1Qualifies == NodeQualifies(n1Weight, sWeight, segment.n1)
           node2Qualifies == NodeQualifies(n2Weight, sWeight, segment.n2)
           locals == [segment |-> segment, n1Weight |-> n1Weight,
                      n2Weight |-> n2Weight, sWeight |-> sWeight,
                      weight |-> weight, subnets |-> subnets, accepted |-> accepted]
       IN  IF SegmentQualifies(node1Qualifies, node2Qualifies)
           THEN LET res == addSegment(subnets, segment)
                    value == MergedWeight(n1Weight, n2Weight, sWeight)
                IN  /\ subnets' = res.subnets
                    /\ weight' = setWeights(weight, subnets, segment, res.subnet, value)
                    /\ accepted' = IF res.subnet = None THEN accepted
                                   ELSE Append(accepted, segment)
                    /\ last' = locals @@
                         [outcome |-> IF res.subnet = None THEN "cycle" ELSE "accepted",
                          subnet |-> res.subnet]
           ELSE /\ last' = locals @@ [outcome |-> "unaffordable", subnet |-> None]
                /\ UNCHANGED <<subnets, weight, accepted>>
    /\ idx' = idx + 1
    /\ UNCHANGED <<pc, coord, segments, order, net0, minCount>>
    /\ UNCHANGED storevars

\* buildNetworkFromNodes, lines 57-65
Prune ==
    /\ pc = "merge"
    /\ idx > Len(order)
    /\ \E m \in 0..MaxMin :
         /\ minCount' = m
         /\ subnets' = surviving(subnets, m)
    /\ net0' = subnets
    /\ pc' = "done"
    /\ UNCHANGED <<coord, weight, segments, order, idx, accepted, last>>
    /\ UNCHANGED storevars

Next ==
    \/ Prepare
    \/ NoExistingNetwork
    \/ ArchiveError
    \/ LoadExistingNetwork
    \/ GenerateNeighbors
    \/ Sort
    \/ ProcessSegment
    \/ Prune

Spec == Init /\ [][Next]_vars

\* ------------------------------------------------------------- variable store
(***************************************************************************)
(* Model of np.lib.variable_store: a chain of three VariableStores, each   *)
(* the parent of the next, over four variable classes.  A has a default,   *)
(* X has neither default nor dependencies, B is computed from A and C is   *)
(* computed from B and X; a computed class reads its dependencies with     *)
(* Variable.get and returns their sum plus one.  Explicit values are       *)
(* numbers, on which the parser (float) changes nothing.                   *)
(***************************************************************************)
variableClasses == <<"A", "X", "B", "C">>
Classes == {variableClasses[i] : i \in DOMAIN variableClasses}
section == [A |-> "s", X |-> "s", B |-> "s", C |-> "t"]
option == [A |-> "a", X |-> "x", B |-> "b", C |-> "c > d"]
aliases == [A |-> <<"al">>, X |-> <<>>, B |-> <<>>, C |-> <<>>]
default == [A |-> 1, X |-> NoValue, B |-> NoValue, C |-> NoValue]
dependencies == [A |-> <<>>, X |-> <<>>, B |-> <<"A">>, C |-> <<"B", "X">>]

\* self.variableStore: the parent of each store (0: no parent)
variableStore == [s \in Stores |-> s - 1]

\* what validateVariableClasses reads of a class
Declaration(c) == [section |-> section[c], option |-> option[c], aliases |-> aliases[c]]

Declarations == [i \in DOMAIN variableClasses |-> Declaration(variableClasses[i])]

\* line 267
variableName(d) == d.section \o " > " \o d.option

\* the aliases are never compared
aliasesUnchecked(variableAliases, i, variableClassByAlias) ==
    [raised |-> FALSE, variableClassByAlias |-> variableClassByAlias]

\* lines 272-275; names the aliases seen, or raises
RECURSIVE aliasesFrom(_, _, _)
aliasesFrom(variableAliases, i, variableClassByAlias) ==
    IF i > Len(variableAliases)
    THEN [raised |-> FALSE, variableClassByAlias |-> variableClassByAlias]
    ELSE IF variableAliases[i] \in variableClassByAlias
         THEN [raised |-> TRUE, variableClassByAlias |-> variableClassByAlias]
         ELSE aliasesFrom(variableAliases, i + 1,
                          variableClassByAlias \cup {variableAliases[i]})

\* lines 261-275; TRUE when an exception is raised
RECURSIVE validateFrom(_, _, _, _)
validateFrom(classes, i, variableClassByName, variableClassByAlias) ==
    IF i > Len(classes) THEN FALSE
    ELSE LET d == classes[i]
         IN  IF d.section = "" \/ d.option = "" THEN TRUE
             ELSE IF variableName(d) \in variableClassByName THEN TRUE
             ELSE LET r == aliasesFrom(d.aliases, 1, variableClassByAlias)
                  IN  IF r.raised THEN TRUE
                      ELSE validateFrom(classes, i + 1,
                                        variableClassByName \cup {variableName(d)},
                                        r.variableClassByAlias)

validateVariableClasses(classes) == validateFrom(classes, 1, {}, {})

\* a child store takes the default like a store without parent
extractVariableValueAlone(valueByOptionBySection, c, parent) ==
    LET hits == {i \in 1..Len(aliases[c]) : aliases[c][i] \in DOMAIN valueByOptionBySection}
    IN  IF hits # {}
        THEN [storeInCache |-> TRUE,
              value |-> valueByOptionBySection[
                          aliases[c][CHOOSE i \in hits : \A j \in hits : i <= j]]]
        ELSE IF /\ section[c] \in DOMAIN valueByOptionBySection
                /\ option[c] \in DOMAIN valueByOptionBySection[section[c]]
        THEN [storeInCache |-> TRUE,
              value |-> valueByOptionBySection[section[c]][option[c]]]
        ELSE IF default[c] = NoValue
        THEN [storeInCache |-> FALSE, value |-> NoValue]
        ELSE [storeInCache |-> TRUE, value |-> NoValue]

\* lines 277-294
extractVariableValue(valueByOptionBySection, c, parent) ==
    LET hits == {i \in 1..Len(aliases[c]) : aliases[c][i] \in DOMAIN valueByOptionBySection}
    IN  IF hits # {}
        THEN [storeInCache |-> TRUE,
              value |-> valueByOptionBySection[
                          aliases[c][CHOOSE i \in hits : \A j \in hits : i <= j]]]
        ELSE IF /\ section[c] \in DOMAIN valueByOptionBySection
                /\ option[c] \in DOMAIN valueByOptionBySection[section[c]]
        THEN [storeInCache |-> TRUE,
              value |-> valueByOptionBySection[section[c]][option[c]]]
        ELSE IF parent \in Stores \/ default[c] = NoValue
        THEN [storeInCache |-> FALSE, value |-> NoValue]
        ELSE [storeInCache |-> TRUE, value |-> NoValue]

\* only the classes themselves are looked up
hasDirectly(cached, classes) ==
    \E i \in 1..Len(classes) : classes[i] \in cached

\* lines 118-127, over the classes cached in a store
RECURSIVE has(_, _)
has(cached, classes) ==
    \E i \in 1..Len(classes) :
        \/ classes[i] \in cached
        \/ dependencies[classes[i]] # <<>> /\ has(cached, dependencies[classes[i]])

NoVariable == [value |-> NoValue, variableStore |-> 0]

\* the outcome of a call: the caches it leaves, whether it raised, its result
Returned(ch, variable) == [variableByClass |-> ch, raised |-> FALSE, variable |-> variable]

\* nothing is raised; the caller gets a variable without value
UnableUnnoticed(ch) == Returned(ch, NoVariable)

\* line 82: raise VariableError
Unable(ch) == [variableByClass |-> ch, raised |-> TRUE, variable |-> NoVariable]

\* self.variableByClass[variableClass] = variable
store(ch, s, c, variable) == [ch EXCEPT ![s] = (c :> variable) @@ ch[s]]

RECURSIVE getVariable(_, _, _)
RECURSIVE compute(_, _, _, _, _)

\* Variable.__init__, lines 161-189
NewVariable(ch, s, c, value) ==
    IF value # NoValue
    THEN Returned(ch, [value |-> value, variableStore |-> s])
    ELSE IF default[c] # NoValue
    THEN Returned(ch, [value |-> default[c], variableStore |-> s])
    ELSE IF dependencies[c] = <<>>
    THEN Returned(ch, [value |-> NoValue, variableStore |-> s])
    ELSE LET r == compute(ch, s, dependencies[c], 1, 1)
         IN  IF r.raised THEN r
             ELSE Returned(r.variableByClass,
                           [value |-> r.variable.value, variableStore |-> s])

\* compute of a class with dependencies: each is read with Variable.get
\* (lines 203-204), in order; an error of a read ends the computation
compute(ch, s, deps, i, sum) ==
    IF i > Len(deps)
    THEN Returned(ch, [value |-> sum, variableStore |-> s])
    ELSE LET r == getVariable(ch, s, deps[i])
         IN  IF r.raised THEN r
             ELSE compute(r.variableByClass, s, deps, i + 1, sum + r.variable.value)

\* lines 66-86
getVariable(ch, s, c) ==
    IF c \in DOMAIN ch[s] THEN Returned(ch, ch[s][c])
    ELSE LET r == IF dependencies[c] # <<>> /\ has(DOMAIN ch[s], dependencies[c])
                  THEN NewVariable(ch, s, c, NoValue)
                  ELSE IF variableStore[s] \in Stores
                  THEN getVariable(ch, variableStore[s], c)
                  ELSE Unable(ch)
         IN  IF r.raised THEN r
             ELSE Returned(store(r.variableByClass, s, c, r.variable), r.variable)

\* the new variable also replaces the one cached in the stores below
setBelow(ch, s, c, value) ==
    LET r == NewVariable(ch, s, c, value)
    IN  IF r.raised THEN r
        ELSE Returned([t \in DOMAIN r.variableByClass |->
                         IF t = s \/ (t > s /\ c \in DOMAIN r.variableByClass[t])
                         THEN (c :> r.variable) @@ r.variableByClass[t]
                         ELSE r.variableByClass[t]],
                      r.variable)

\* lines 58-61
set(ch, s, c, value) ==
    LET r == NewVariable(ch, s, c, value)
    IN  IF r.raised THEN r
        ELSE Returned(store(r.variableByClass, s, c, r.variable), r.variable)

\* lines 50-56
RECURSIVE prepareCache(_, _, _, _)
prepareCache(ch, s, valueByOptionBySection, i) ==
    IF i > Len(variableClasses) THEN ch
    ELSE LET c == variableClasses[i]
             e == extractVariableValue(valueByOptionBySection, c, variableStore[s])
         IN  prepareCache(IF e.storeInCache
                          THEN set(ch, s, c, e.value).variableByClass
                          ELSE ch,
                          s, valueByOptionBySection, i + 1)

\* what a caller passes: the value 2, which no default and no computation on
\* defaults gives to A or X; at most one by alias and one by section and option
Values == {2}
ByAlias == {<<>>} \cup {("al" :> v) : v \in Values}
BySection == {<<>>} \cup {(section[c] :> (option[c] :> v)) : c \in Classes, v \in Values}
Givens == {a @@ b : a \in ByAlias, b \in BySection}

\* declarations of aggregate and summary classes
ExtraDeclarations ==
    [section : {"", "s", "t > c", "u"}, option : {"", "a", "d", "x"},
     aliases : {<<>>, <<"al">>, <<"q">>, <<"q", "q">>}]

RECURSIVE ExtraLists(_)
ExtraLists(n) ==
    IF n = 0 THEN {<<>>}
    ELSE ExtraLists(n - 1) \cup
         {Append(l, d) : l \in {m \in ExtraLists(n - 1) : Len(m) = n - 1},
                         d \in ExtraDeclarations}

Built == DOMAIN variableByClass

Record(kind, s, c, value, given, r) ==
    [kind |-> kind, store |-> s, class |-> c, value |-> value, given |-> given,
     raised |-> r.raised, variable |-> r.variable, before |-> variableByClass]

KruskalIdle ==
    /\ pc = "idle"
    /\ coord = <<>>
    /\ weight = <<>>
    /\ subnets = {}
    /\ segments = <<>>
    /\ order = <<>>
    /\ idx = 0
    /\ accepted = <<>>
    /\ last = NoLast
    /\ net0 = {}
    /\ minCount = 0

\* no store exists yet; the model class has no aggregate or summary classes
InitVS ==
    /\ KruskalIdle
    /\ variableByClass = <<>>
    /\ declared = <<>>
    /\ explicit = 0
    /\ op = NoOp
    /\ gather = NoGather

\* VariableStore.__init__, lines 21-56: the next store of the chain
Construct ==
    /\ Built # Stores
    /\ LET s == Cardinality(Built) + 1
       IN  \E given \in Givens :
             /\ explicit + Cardinality(DOMAIN given) <= MaxExplicit
             /\ IF validateVariableClasses(Declarations \o declared)
                THEN /\ op' = Record("construct", s, "", NoValue, given,
                                     Unable(variableByClass))
                     /\ UNCHANGED <<variableByClass, explicit>>
                ELSE /\ variableByClass' =
                          prepareCache(variableByClass @@ (s :> <<>>), s, given, 1)
                     /\ explicit' = explicit + Cardinality(DOMAIN given)
                     /\ op' = Record("construct", s, "", NoValue, given,
                                     Returned(variableByClass, NoVariable))
    /\ UNCHANGED declared
    /\ UNCHANGED buildvars
    /\ UNCHANGED gather

\* get, lines 63-64, and getVariable
Get ==
    /\ \E s \in Built, c \in Classes :
         LET r == getVariable(variableByClass, s, c)
         IN  /\ variableByClass' = r.variableByClass
             /\ op' = Record("get", s, c, NoValue, <<>>, r)
    /\ UNCHANGED <<declared, explicit>>
    /\ UNCHANGED buildvars
    /\ UNCHANGED gather

\* set, lines 58-61; a class with neither default nor dependencies is set
\* with a value
Set ==
    /\ explicit < MaxExplicit
    /\ \E s \in Built, c \in Classes, value \in Values \cup {NoValue} :
         /\ value = NoValue => default[c] # NoValue \/ dependencies[c] # <<>>
         /\ LET r == set(variableByClass, s, c, value)
            IN  /\ variableByClass' = r.variableByClass
                /\ op' = Record("set", s, c, value, <<>>, r)
    /\ explicit' = explicit + 1
    /\ UNCHANGED declared
    /\ UNCHANGED buildvars
    /\ UNCHANGED gather

NextVS ==
    \/ Construct
    \/ Get
    \/ Set

SpecVS == InitVS /\ [][NextVS]_vars

\* the model class declares aggregate and summary classes; stores are built
\* without explicit values
InitValidate ==
    /\ KruskalIdle
    /\ variableByClass = <<>>
    /\ declared \in ExtraLists(MaxClasses)
    /\ explicit = MaxExplicit
    /\ op = NoOp
    /\ gather = NoGather

NextValidate == Construct

SpecValidate == InitValidate /\ [][NextValidate]_vars

\* ------------------------------------------------------------- gathering
(***************************************************************************)
(* Model of gatherVariables: the model class lists some of three classes   *)
(* (its variable, aggregate and summary classes, in one list) and every    *)
(* class names its dependencies; every such list and every dependency      *)
(* graph over the three classes is an input.                               *)
(***************************************************************************)
GatherClasses == {"P", "Q", "R"}

\* a set of classes as a list
Listed(S) == SelectSeq(<<"P", "Q", "R">>, LAMBDA c : c \in S)

Members(l) == {l[i] : i \in DOMAIN l}

ModelClasses ==
    [classes : {Listed(S) : S \in SUBSET GatherClasses},
     dependencies : [GatherClasses -> {Listed(S) : S \in SUBSET GatherClasses}]]

\* gatherVariables is called with a model class
InitGather ==
    /\ KruskalIdle
    /\ variableByClass = <<>>
    /\ declared = <<>>
    /\ explicit = 0
    /\ op = NoOp
    /\ \E m \in ModelClasses :
         gather = [pc |-> "called", modelClass |-> m, variableClasses |-> {},
                   rootClasses |-> {}, nextClasses |-> <<>>, seen |-> {}]

\* the locals of the loop
Configuration == <<gather.variableClasses, gather.rootClasses, gather.nextClasses>>

\* lines 230-239
Initialize ==
    /\ gather.pc = "called"
    /\ gather' = [gather EXCEPT !.pc = "loop",
                                !.nextClasses = gather.modelClass.classes,
                                !.rootClasses = Members(gather.modelClass.classes)]
    /\ UNCHANGED <<buildvars, variableByClass, declared, explicit, op>>

\* lines 241-252: one iteration of the while loop; the list of the classes
\* still to visit holds at most MaxPending classes
Pop ==
    /\ gather.pc = "loop"
    /\ gather.nextClasses # <<>>
    /\ LET n == Len(gather.nextClasses)
           variableClass == gather.nextClasses[n]
           deps == gather.modelClass.dependencies[variableClass]
       IN  /\ n - 1 + Len(deps) <= MaxPending
           /\ gather' = [gather EXCEPT
                  !.variableClasses = @ \cup {variableClass} \cup Members(deps),
                  !.rootClasses = @ \ Members(deps),
                  !.nextClasses = SubSeq(@, 1, n - 1) \o deps,
                  !.seen = @ \cup {Configuration}]
    /\ UNCHANGED <<buildvars, variableByClass, declared, explicit, op>>

\* line 254
Return ==
    /\ gather.pc = "loop"
    /\ gather.nextClasses = <<>>
    /\ gather' = [gather EXCEPT !.pc = "returned"]
    /\ UNCHANGED <<buildvars, variableByClass, declared, explicit, op>>

NextGather ==
    \/ Initialize
    \/ Pop
    \/ Return

SpecGather == InitGather /\ [][NextGather]_vars


\* ------------------------------------------------------------- properties
Processed == last.outcome # "none"

Attempted == last.outcome \in {"accepted", "cycle"}

Accepted == last.outcome = "accepted"

\* the weight shared by the members a Subnet enumerates (its fixed nodes'
\* weight when it has no other member)
SubnetWeight(w, S) ==
    IF cycleNodes(S) # {} THEN w[CHOOSE n \in cycleNodes(S) : TRUE]
    ELSE w[CHOOSE n \in S : TRUE]

LastA == SubnetOf(last.subnets, last.segment.n1)

LastB == SubnetOf(last.subnets, last.segment.n2)

\* C1: addSegment is attempted for a candidate only if each endpoint, taken
\* by itself, has weight >= the segment cost or a negative id at the moment
\* the candidate is processed; so a candidate joining a fixed node to a real
\* node that cannot afford it is never accepted.
C1_BothEndpointsQualify ==
    Attempted =>
        /\ last.weight[last.segment.n1] >= last.segment.w \/ last.segment.n1 < 0
        /\ last.weight[last.segment.n2] >= last.segment.w \/ last.segment.n2 < 0
        /\ last.n1Weight = last.weight[last.segment.n1]
        /\ last.n2Weight = last.weight[last.segment.n2]

\* C1 witness: a candidate was accepted whose fixed endpoint has a weight
\* below the segment cost while its real endpoint affords it.
C1_Witness ==
    /\ Accepted
    /\ last.segment.n2 < 0
    /\ last.n2Weight < last.sWeight
    /\ last.segment.n1 > 0
    /\ last.n1Weight >= last.sWeight

\* C2: when a segment of cost wS is accepted and merges a Subnet of weight
\* wA with a Subnet of weight wB, the merged Subnet's weight right after the
\* merge is wA + wB - wS.
C2_BudgetConservation ==
    (pc = "merge" /\ Accepted) =>
        SubnetWeight(weight, last.subnet) =
            SubnetWeight(last.weight, LastA) + SubnetWeight(last.weight, LastB)
                - last.sWeight

\* C3: at every point of a build all nodes of one Subnet, real or fixed,
\* hold the same weight.
C3_WeightHomogeneity ==
    \A S \in subnets : \A a, b \in S : weight[a] = weight[b]

\* C4: a segment is accepted only if its endpoints were in different
\* Subnets, and in every Subnet the number of segments accepted during the
\* build is at most the number of its nodes minus one.
C4_Acyclicity ==
    /\ Accepted => LastA # LastB
    /\ \A S \in subnets \cup net0 :
         Cardinality({i \in 1..Len(accepted) :
                        {accepted[i].n1, accepted[i].n2} \subseteq S})
            <= Cardinality(S) - 1

\* C4 witness: a Subnet of three nodes built by two accepted segments.
C4_Witness ==
    \E S \in subnets :
        /\ Cardinality(S) = 3
        /\ Cardinality({i \in 1..Len(accepted) :
                          {accepted[i].n1, accepted[i].n2} \subseteq S}) = 2

\* C5: processing a candidate whose endpoints are already in one Subnet
\* (a self-segment included) adds nothing and changes no Subnet membership,
\* no node weight and no accepted-segment history.
C5_CycleChangesNothing ==
    (pc = "merge" /\ Processed /\ LastA = LastB) =>
        /\ last.outcome # "accepted"
        /\ last.subnet = None
        /\ subnets = last.subnets
        /\ weight = last.weight
        /\ accepted = last.accepted

\* C5 witness: a self-segment of a node with a positive weight was given to
\* addSegment after an earlier merge.
C5_Witness ==
    /\ pc = "merge"
    /\ last.outcome = "cycle"
    /\ last.segment.n1 = last.segment.n2
    /\ last.n1Weight > 0

\* C6: a merge of two Subnets without fixed nodes yields a weight that is
\* >= 0 and >= each of the two prior Subnet weights, and in a build without
\* an existing network no node weight is ever negative.
C6_NonNegativeBudget ==
    /\ (pc = "merge" /\ Accepted /\ last.subnet \cap FixedNodes = {}) =>
         \A n \in last.subnet :
            /\ weight[n] >= 0
            /\ weight[n] >= SubnetWeight(last.weight, LastA)
            /\ weight[n] >= SubnetWeight(last.weight, LastB)
    /\ (DOMAIN weight) \cap FixedNodes = {} => \A n \in DOMAIN weight : weight[n] >= 0

\* C6 witness: two Subnets without fixed nodes, one of them already merged,
\* were joined by a segment of positive cost.
C6_Witness ==
    /\ pc = "merge"
    /\ Accepted
    /\ (DOMAIN weight) \cap FixedNodes = {}
    /\ last.sWeight > 0
    /\ Cardinality(last.subnet) = 3

\* C7: the Subnets partition the nodes from the start of the build (real
\* nodes in singletons, the existing network in one Subnet) to the end of
\* the merge loop, and an accepted segment replaces the two Subnets of its
\* endpoints by their union and leaves every other Subnet as it was.
IsPartition(subs, nodes) ==
    /\ {} \notin subs
    /\ UNION subs = nodes
    /\ \A S, T \in subs : S # T => S \cap T = {}

C7_SubnetsPartitionNodes ==
    /\ pc \in {"existing", "neighbors", "sort", "merge"} =>
         IsPartition(subnets, DOMAIN weight)
    /\ pc = "done" => IsPartition(net0, DOMAIN weight)
    /\ pc \in {"existing", "neighbors", "sort"} =>
         /\ \A r \in RealNodes : {r} \in subnets
         /\ (DOMAIN weight) \cap FixedNodes # {} => (DOMAIN weight) \ RealNodes \in subnets
    /\ (pc = "merge" /\ Accepted) =>
         \E A, B \in last.subnets :
            /\ A # B
            /\ last.segment.n1 \in A
            /\ last.segment.n2 \in B
            /\ subnets = (last.subnets \ {A, B}) \cup {A \cup B}
    /\ (pc = "merge" /\ Processed /\ ~Accepted) => subnets = last.subnets

\* C7 witness: a real node was merged into the existing network's Subnet
\* while another Subnet stayed as it was.
C7_Witness ==
    /\ pc = "merge"
    /\ Accepted
    /\ \E S \in subnets : FixedNodes \subseteq S /\ S \cap RealNodes # {}
    /\ \E S \in subnets : S \in last.subnets

\* C8: the returned network holds exactly the Subnets of the post-merge
\* network whose count of real nodes is >= minimumNodeCountPerSubnetwork.
C8_PruningExact ==
    pc = "done" =>
        /\ subnets \subseteq net0
        /\ \A S \in net0 :
             S \in subnets <=> Cardinality(S \cap RealNodes) >= minCount

\* C8 witness: with threshold 2 the existing network's Subnet, to which one
\* real node attached, was dropped and a Subnet of two real nodes was kept.
C8_Witness ==
    /\ pc = "done"
    /\ minCount = 2
    /\ \E S \in net0 : FixedNodes \subseteq S /\ Cardinality(S \cap RealNodes) = 1
                        /\ S \notin subnets
    /\ \E S \in subnets : Cardinality(S \cap RealNodes) = 2

\* C9: for one post-merge network and thresholds m1 <= m2, the Subnets that
\* survive m2 are among those that survive m1, so their number does not
\* grow with the threshold.
C9_PruningMonotone ==
    /\ (pc = "merge" /\ idx > Len(order)) =>
         \A m1, m2 \in 0..(MaxMin + 1) : m1 <= m2 =>
            /\ surviving(subnets, m2) \subseteq surviving(subnets, m1)
            /\ Cardinality(surviving(subnets, m2)) <= Cardinality(surviving(subnets, m1))
    /\ pc = "done" =>
         \A m \in 0..(MaxMin + 1) :
            /\ m >= minCount => surviving(net0, m) \subseteq subnets
            /\ m <= minCount => subnets \subseteq surviving(net0, m)

\* C9 witness: a returned network that is not empty and is strictly smaller
\* than the one a lower threshold returns.
C9_Witness ==
    /\ pc = "done"
    /\ minCount = 2
    /\ subnets # {}
    /\ subnets # surviving(net0, 1)

\* C10: every candidate the merge loop processes comes after all candidates
\* of lower cost and, among candidates of equal cost, after those generated
\* before it; the list is generated as projection candidates first, then
\* the neighbour candidates in node order.
IsFixedEnded(s) == s.n1 < 0 \/ s.n2 < 0

C10_ProcessingOrder ==
    /\ pc \in {"merge", "done"} =>
         /\ Len(order) = Len(segments)
         /\ \A j \in 1..Len(order) : order[j] \in 1..Len(segments)
    /\ (pc = "merge" /\ idx > 1) =>
         \A i \in 1..(idx - 2) :
            LET s == segments[order[i]]
                t == segments[order[idx - 1]]
            IN  /\ order[i] # order[idx - 1]
                /\ s.w <= t.w
                /\ s.w = t.w => order[i] < order[idx - 1]
    /\ pc = "sort" =>
         \A i, j \in 1..Len(segments) : i < j =>
            /\ IsFixedEnded(segments[j]) => IsFixedEnded(segments[i])
            /\ segments[i].by <= segments[j].by \/ IsFixedEnded(segments[i])

\* C10 witness: the loop has processed a projection candidate and a
\* neighbour candidate of the same cost, and a candidate of higher cost.
C10_Witness ==
    /\ pc = "merge"
    /\ idx > Len(order)
    /\ \E i, j, k \in 1..Len(order) :
         /\ i < j /\ j < k
         /\ IsFixedEnded(segments[order[i]])
         /\ ~IsFixedEnded(segments[order[j]])
         /\ segments[order[i]].w = segments[order[j]].w
         /\ segments[order[j]].w < segments[order[k]].w

\* C11: a candidate that was discarded (as a cycle or as unaffordable) is
\* never accepted when the same Segment comes up again later in the build.
WasAccepted(s) == \E a \in 1..Len(last.accepted) : last.accepted[a] = s

C11_NoRetry ==
    (pc = "merge" /\ Accepted) =>
        \A i \in 1..(idx - 2) :
            SameSegment(segments[order[i]], last.segment) =>
                WasAccepted(segments[order[i]])

\* C11 witness: the second occurrence of a Segment that was discarded as
\* unaffordable is processed after another candidate was accepted between
\* the two occurrences, and is discarded again.
C11_Witness ==
    /\ pc = "merge"
    /\ last.outcome = "unaffordable"
    /\ \E i, j \in 1..(idx - 2) :
         /\ i < j
         /\ SameSegment(segments[order[i]], last.segment)
         /\ ~WasAccepted(segments[order[i]])
         /\ WasAccepted(segments[order[j]])

\* C12: in the reference scenario (nodes (0,0), (1,0), (2,0) of weight 10
\* and (10,10) of weight 1, two nearest neighbours per node, no existing
\* network, minimum node count 2) exactly (0,0)-(1,0) and (1,0)-(2,0) are
\* accepted, the three nodes share weight 19 after the first merge and 28
\* after the second, (10,10) stays a singleton, and the returned network is
\* the one Subnet of the three nodes.
IsReference ==
    /\ coord = ReferenceCoordinates
    /\ pc \in {"merge", "done"}
    /\ DOMAIN weight = RealNodes
    /\ \A r \in RealNodes :
         Cardinality({i \in 1..Len(segments) : segments[i].by = r}) = 2

Ends(s) == {s.n1, s.n2}

C12_ReferenceScenario ==
    IsReference =>
        /\ Len(accepted) <= 2
        /\ Len(accepted) = 0 => weight = <<10, 10, 10, 1>>
        /\ Len(accepted) >= 1 => Ends(accepted[1]) = {1, 2}
        /\ Len(accepted) = 1 => weight[1] = 19 /\ weight[2] = 19 /\ weight[4] = 1
        /\ Len(accepted) = 2 =>
             /\ Ends(accepted[2]) = {2, 3}
             /\ weight = <<28, 28, 28, 1>>
             /\ (IF pc = "done" THEN net0 ELSE subnets) = {{1, 2, 3}, {4}}
        /\ (pc = "done" \/ idx > Len(order)) => Len(accepted) = 2
        /\ (pc = "done" /\ minCount = 2) => subnets = {{1, 2, 3}}

\* C12 witness: the reference build has returned with threshold 2.
C12_Witness ==
    /\ IsReference
    /\ pc = "done"
    /\ minCount = 2
    /\ Len(accepted) = 2

\* C13: when the archive of the existing network is missing or holds no
\* shapefile the build stops with the error before any graph work: no
\* candidate was generated, no Subnet was added or merged, no node weight
\* was changed and the merge loop was not entered.
C13_ErrorBeforeGraphWork ==
    pc = "error" =>
        /\ segments = <<>>
        /\ order = <<>>
        /\ idx = 0
        /\ last = NoLast
        /\ accepted = <<>>
        /\ subnets = {{r} : r \in RealNodes}
        /\ DOMAIN weight = RealNodes
        /\ net0 = {}
        /\ coord = ReferenceCoordinates => weight = <<10, 10, 10, 1>>
        /\ coord # ReferenceCoordinates => \A r \in RealNodes : weight[r] \in 0..MaxWeight

\* C13 witness: the build has stopped with the configuration error.
C13_Witness == pc = "error" /\ coord = ReferenceCoordinates

\* the three ways the processing of a candidate can end
BothQualified ==
    /\ last.weight[last.segment.n1] >= last.segment.w \/ last.segment.n1 < 0
    /\ last.weight[last.segment.n2] >= last.segment.w \/ last.segment.n2 < 0

EndsAccepted ==
    /\ last.outcome = "accepted"
    /\ BothQualified
    /\ LastA # LastB
    /\ Cardinality(subnets) = Cardinality(last.subnets) - 1
    /\ Len(accepted) = Len(last.accepted) + 1

EndsAsCycle ==
    /\ last.outcome = "cycle"
    /\ BothQualified
    /\ LastA = LastB
    /\ subnets = last.subnets
    /\ accepted = last.accepted

EndsUnaffordable ==
    /\ last.outcome = "unaffordable"
    /\ ~BothQualified
    /\ subnets = last.subnets
    /\ accepted = last.accepted

LoopOutcomes ==
    /\ pc = "merge" =>
         /\ idx \in 1..(Len(order) + 1)
         /\ Processed <=> idx > 1
         /\ Processed =>
              /\ last.segment = segments[order[idx - 1]]
              /\ EndsAccepted \/ EndsAsCycle \/ EndsUnaffordable
    /\ pc = "done" => Cardinality(subnets) <= Cardinality(RealNodes) + 1

\* C14: the merge loop ends for every candidate list without an error (in the
\* loop the next candidate can always be processed, the position only moves
\* forward to the end of the list, and then the build completes), and every
\* processed candidate ends in exactly one of three outcomes: accepted (two
\* Subnets merged), discarded as a cycle, or discarded because an endpoint
\* could not afford it; a build whose candidates are all rejected still
\* returns a network.
C14_LoopTerminates ==
    /\ LoopOutcomes
    /\ (pc = "merge" /\ idx <= Len(order)) => ENABLED ProcessSegment
    /\ (pc = "merge" /\ idx > Len(order)) => ENABLED Prune
    /\ pc = "done" => idx = Len(order) + 1

\* C14 witness: a build in which every candidate was rejected has returned
\* an empty network.
C14_Witness ==
    /\ pc = "done"
    /\ Len(order) > Cardinality(RealNodes)
    /\ accepted = <<>>
    /\ subnets = {}

\* the candidates that join a node to itself
SelfSegments == {i \in 1..Len(segments) : segments[i].n1 = segments[i].n2}

\* C15 as stated: every Segment in the candidate list returned by
\* generateSegments joins two distinct Nodes.
C15_DistinctEndpoints ==
    pc \in {"sort", "merge", "done"} => SelfSegments = {}

\* C15 amended: the candidate list returned by generateSegments holds, for
\* every demand node, exactly one Segment from the node to itself, of cost 0
\* and made by the node's own nearest-neighbour query; every other candidate,
\* the projections onto the existing network included, joins two distinct
\* Nodes.
C15_OnlySelfMatchesJoinOneNode ==
    pc \in {"sort", "merge", "done"} =>
        /\ \A r \in RealNodes :
             Cardinality({i \in SelfSegments : segments[i].n1 = r}) = 1
        /\ \A i \in SelfSegments :
             /\ segments[i].n1 \in RealNodes
             /\ segments[i].w = 0
             /\ segments[i].by = segments[i].n1
        /\ \A i \in 1..Len(segments) :
             isFake(segments[i].n1) \/ isFake(segments[i].n2)
                 => segments[i].n1 # segments[i].n2

\* C15 witness: a returned candidate list with a self-segment, a segment
\* between two demand nodes and a projection onto the existing network.
C15_Witness ==
    /\ pc = "sort"
    /\ SelfSegments # {}
    /\ \E i \in 1..Len(segments) :
         /\ segments[i].n1 # segments[i].n2
         /\ ~isFake(segments[i].n1) /\ ~isFake(segments[i].n2)
    /\ \E i \in 1..Len(segments) : isFake(segments[i].n2)

\* ------------------------------------------------------------- properties of the store
Direct(c) == {dependencies[c][i] : i \in DOMAIN dependencies[c]}

RECURSIVE Grow(_, _)
Grow(S, n) == IF n = 0 THEN S ELSE Grow(S \cup UNION {Direct(d) : d \in S}, n - 1)

\* the classes c depends on, directly or through other classes
DependsOn(c) == Grow(Direct(c), Cardinality(Classes))

\* the store and its ancestors
RECURSIVE Chain(_)
Chain(s) == {s} \cup (IF variableStore[s] \in Stores THEN Chain(variableStore[s]) ELSE {})

\* the caller's values name the class, by an alias or by section and option
Explicit(given, c) ==
    \/ \E i \in DOMAIN aliases[c] : aliases[c][i] \in DOMAIN given
    \/ section[c] \in DOMAIN given /\ option[c] \in DOMAIN given[section[c]]

\* the call was made on a store that had neither the class nor any class it
\* depends on in its cache
Missed ==
    /\ op.class \notin DOMAIN op.before[op.store]
    /\ DependsOn(op.class) \cap DOMAIN op.before[op.store] = {}

\* C16: a store built with a parent caches only the classes it was given a
\* value for, and none by default; when it is asked for a class that neither
\* it nor a dependency of the class has cached, the answer is the variable
\* its parent answers with (found through the parent's own ancestors), which
\* was built for an ancestor; a store built without parent also caches every
\* class that has a default, with the default as value.
C16_Inheritance ==
    /\ (op.kind = "construct" /\ ~op.raised) =>
         \A c \in Classes :
            /\ c \in DOMAIN variableByClass[op.store] <=>
                 \/ Explicit(op.given, c)
                 \/ variableStore[op.store] \notin Stores /\ default[c] # NoValue
            /\ (c \in DOMAIN variableByClass[op.store] /\ ~Explicit(op.given, c)) =>
                 variableByClass[op.store][c] =
                     [value |-> default[c], variableStore |-> op.store]
    /\ (op.kind = "get" /\ variableStore[op.store] \in Stores /\ Missed) =>
         LET r == getVariable(op.before, variableStore[op.store], op.class)
         IN  /\ op.raised = r.raised
             /\ op.variable = r.variable
             /\ ~op.raised =>
                  /\ op.variable.variableStore \in Chain(variableStore[op.store])
                  /\ variableByClass[op.store][op.class] = op.variable

\* C16 witness: the third store, built with no value for A, was asked for A
\* and answered with the variable of the first store, whose value is the one
\* given to the first store and not the default.
C16_Witness ==
    /\ op.kind = "get" /\ op.store = 3 /\ op.class = "A" /\ ~op.raised
    /\ Missed
    /\ "A" \notin DOMAIN op.before[2]
    /\ op.variable = [value |-> 2, variableStore |-> 1]
    /\ op.variable.value # default["A"]

RECURSIVE SumOf(_, _, _)
SumOf(cache, deps, i) ==
    IF i > Len(deps) THEN 0 ELSE cache[deps[i]].value + SumOf(cache, deps, i + 1)

\* C17: has answers true exactly when one of the classes, or a class one of
\* them depends on directly or through others, is in the store's own cache;
\* a store asked for a class it has not cached, while it has cached a class
\* that one depends on, answers with a new variable built for itself from
\* its own values, and caches it, whatever its parent has cached.
C17_RecomputeOnOverride ==
    /\ \A s \in Built, c \in Classes :
         /\ has(DOMAIN variableByClass[s], <<c>>) <=>
              ({c} \cup DependsOn(c)) \cap DOMAIN variableByClass[s] # {}
         /\ has(DOMAIN variableByClass[s], dependencies[c]) <=>
              DependsOn(c) \cap DOMAIN variableByClass[s] # {}
    /\ (/\ op.kind = "get"
        /\ op.class \notin DOMAIN op.before[op.store]
        /\ DependsOn(op.class) \cap DOMAIN op.before[op.store] # {}) =>
         IF op.raised THEN op.class \notin DOMAIN variableByClass[op.store]
         ELSE /\ op.variable.variableStore = op.store
              /\ op.variable.value =
                   1 + SumOf(variableByClass[op.store], dependencies[op.class], 1)
              /\ variableByClass[op.store][op.class] = op.variable

\* C17 witness: a store that has its own value for A was asked for B while
\* its parent had B cached; the answer is a new variable of the store, with
\* another value than the parent's.
C17_Witness ==
    /\ op.kind = "get" /\ op.class = "B" /\ ~op.raised
    /\ variableStore[op.store] \in Stores
    /\ "B" \notin DOMAIN op.before[op.store]
    /\ "A" \in DOMAIN op.before[op.store]
    /\ "B" \in DOMAIN op.before[variableStore[op.store]]
    /\ op.variable.variableStore = op.store
    /\ op.variable.value # op.before[variableStore[op.store]]["B"].value

\* C18: when neither the store nor any of its ancestors has the class or a
\* class it depends on in its cache, getVariable raises and leaves every
\* cache as it was; whenever getVariable raises, the class is not in the
\* cache of the store it was called on, and that cache is unchanged if the
\* store had cached neither the class nor a class it depends on.
C18_UnableToGet ==
    op.kind = "get" =>
      /\ (\A t \in Chain(op.store) :
             /\ op.class \notin DOMAIN op.before[t]
             /\ DependsOn(op.class) \cap DOMAIN op.before[t] = {}) =>
           /\ op.raised
           /\ variableByClass = op.before
      /\ op.raised =>
           /\ op.class \notin DOMAIN variableByClass[op.store]
           /\ Missed => variableByClass[op.store] = op.before[op.store]

\* C18 witness: the third store was asked for C, which depends on X, with
\* nothing of it cached; no store can supply X, the call raised and the
\* store's cache is as before.
C18_Witness ==
    /\ op.kind = "get" /\ op.store = 3 /\ op.class = "C" /\ op.raised
    /\ Missed
    /\ \A t \in Stores : "X" \notin DOMAIN op.before[t]
    /\ variableByClass[3] = op.before[3]

Pairs(classes) == {p \in (DOMAIN classes) \X (DOMAIN classes) : p[1] < p[2]}

EmptyName(classes) ==
    \E i \in DOMAIN classes : classes[i].section = "" \/ classes[i].option = ""

SameName(classes) ==
    \E p \in Pairs(classes) : variableName(classes[p[1]]) = variableName(classes[p[2]])

SameAlias(classes) ==
    \E p \in Pairs(classes) :
       \E k \in DOMAIN classes[p[1]].aliases, l \in DOMAIN classes[p[2]].aliases :
          classes[p[1]].aliases[k] = classes[p[2]].aliases[l]

\* every alias is declared once in the whole list
DistinctAliases(classes) ==
    \A i, j \in DOMAIN classes :
       \A k \in DOMAIN classes[i].aliases, l \in DOMAIN classes[j].aliases :
          classes[i].aliases[k] = classes[j].aliases[l] => i = j /\ k = l

\* C19: the construction of a store raises, and builds nothing, if one of
\* the variable, aggregate and summary classes has an empty section or
\* option, if two of them have the same name "section > option", or if two
\* of them declare the same alias; when a store exists the names of the
\* classes are pairwise distinct and so are their aliases.
C19_ConstructionValidates ==
    LET classes == Declarations \o declared
    IN  /\ op.kind = "construct" =>
             /\ (EmptyName(classes) \/ SameName(classes) \/ SameAlias(classes)) =>
                  op.raised /\ variableByClass = op.before
             /\ ~op.raised => op.store \in Built
        /\ Built # {} =>
             /\ ~EmptyName(classes)
             /\ ~SameName(classes)
             /\ DistinctAliases(classes)

\* C19 witness: a construction raised because an aggregate or summary class
\* declares an alias of a variable class, all names being filled and distinct.
C19_Witness ==
    LET classes == Declarations \o declared
    IN  /\ op.kind = "construct" /\ op.raised
        /\ Built = {}
        /\ SameAlias(classes)
        /\ ~EmptyName(classes) /\ ~SameName(classes)

\* C20: a call leaves every cached variable in place, except a set of that
\* class on that store; a get that succeeds leaves its answer in the cache
\* of the store, and a get of a cached class answers with the cached
\* variable and changes no cache.
C20_Memoization ==
    /\ op.kind # "none" =>
         \A s \in DOMAIN op.before : \A c \in DOMAIN op.before[s] :
            \/ op.kind = "set" /\ op.store = s /\ op.class = c /\ ~op.raised
            \/ /\ c \in DOMAIN variableByClass[s]
               /\ variableByClass[s][c] = op.before[s][c]
    /\ (op.kind = "get" /\ ~op.raised) =>
         /\ op.class \in DOMAIN variableByClass[op.store]
         /\ variableByClass[op.store][op.class] = op.variable
    /\ (op.kind = "get" /\ op.class \in DOMAIN op.before[op.store]) =>
         /\ ~op.raised
         /\ op.variable = op.before[op.store][op.class]
         /\ variableByClass = op.before

\* C20 witness: the second store answers a get of A with the variable it
\* once took from the first store, after the first store's A was replaced.
C20_Witness ==
    /\ op.kind = "get" /\ op.store = 2 /\ op.class = "A" /\ ~op.raised
    /\ "A" \in DOMAIN op.before[2]
    /\ op.variable.variableStore = 1
    /\ op.variable # variableByClass[1]["A"]

\* ------------------------------------------------------------- properties of the gathering
DependenciesOf(c) == Members(gather.modelClass.dependencies[c])

RECURSIVE Follow(_, _)
Follow(S, n) ==
    IF n = 0 THEN S ELSE Follow(S \cup UNION {DependenciesOf(d) : d \in S}, n - 1)

\* the listed classes and everything reachable from them
Reachable == Follow(Members(gather.modelClass.classes), Cardinality(GatherClasses))

\* a class that is visited depends on itself, directly or through others
Cyclic ==
    \E c \in Reachable : c \in Follow(DependenciesOf(c), Cardinality(GatherClasses))

\* what gatherVariables is to return
Gathered ==
    gather.pc = "returned" =>
      /\ gather.variableClasses = Reachable
      /\ gather.rootClasses =
           {c \in Members(gather.modelClass.classes) :
               \A g \in gather.variableClasses : c \notin DependenciesOf(g)}

\* C21: gatherVariables terminates for every model, also when classes
\* depend on each other cyclically (its loop, which is deterministic, is
\* never again in a configuration it has been in), and it returns the
\* listed classes with everything reachable from them, and as roots the
\* listed classes that are not a dependency of a gathered class.
C21_GatherTerminates ==
    /\ gather.pc = "loop" => Configuration \notin gather.seen
    /\ Gathered

\* on a model without cyclic dependencies the loop is never twice in one
\* configuration, its next iteration can always be made, and the result is
\* the one described
GatherOfAcyclicModel ==
    (gather.pc \in {"loop", "returned"} /\ ~Cyclic) =>
      /\ gather.pc = "loop" => Configuration \notin gather.seen
      /\ (gather.pc = "loop" /\ gather.nextClasses # <<>>) => ENABLED Pop
      /\ Gathered

====
